---- MODULE Spec2Model ----
(***************************************************************************)
(* PerformanceCacheService (src/unnamed/part_005): a two-tier cache, a     *)
(* Map in memory (hot tier) over AsyncStorage (durable tier).              *)
(*                                                                         *)
(* JavaScript runs one callback at a time, so every action below is one    *)
(* synchronous stretch of a method: from its call, or from the resumption  *)
(* after an await, up to the next await or its return.  A durable read is  *)
(* two steps (the read takes its snapshot; the continuation runs later);   *)
(* a durable write takes effect and resumes its caller in one step, since  *)
(* nothing the caller does after it touches shared state but a counter.    *)
(*                                                                         *)
(* Time.  Date.now() is read only by set (the timestamp of the item) and   *)
(* by isExpired; an action that reads it lets the clock advance first (by  *)
(* d ticks, any d the bound allows), which is every placement of the time  *)
(* that passes between two readings.                                       *)
(*                                                                         *)
(* Scaling.  Times are in ticks, sizes in abstract bytes, and the caps,    *)
(* ttls and the byte budget of the source are replaced by the small        *)
(* bounds below; the ratios the code computes (0.6 x cap, budget/2,        *)
(* budget x 2) are kept.                                                   *)
(***************************************************************************)
EXTENDS Integers, Sequences, FiniteSets, TLC

\* ---------------------------------------------------------------- bounds
MaxCalls == 2          \* public calls issued in one behaviour of Spec
MaxCallsSeq == 3       \* ... of SpecSeq
MaxCallsConc == 2      \* ... of SpecConc
MaxTime == 2           \* last tick of the clock
MaxFaults == 1         \* durable I/O operations that throw
CapUser == 1           \* maxSize of 'user', as in the source
CapAppointments == 2   \* stands for maxSize 100 of 'appointments'
CapServices == 2       \* stands for maxSize 50 of 'services'
CapShops == 2          \* stands for maxSize 100 of 'shops'
CapDefault == 2        \* stands for maxSize 50 of the default config
TtlUser == 1           \* stands for 24 hours
TtlAppointments == 1   \* stands for 5 minutes
TtlServices == 1       \* stands for 30 minutes
TtlShops == 2          \* stands for 1 hour
TtlDefault == 1        \* stands for 5 minutes
MemoryBudget == 4      \* stands for the 50MB of maxMemorySize
SmallSize == 1         \* the byte size of value v1
LargeSize == 3         \* the byte size of value v2
DefaultEstimate == 2   \* stands for the 1024 bytes estimateSize falls back to
ShrinkThreshold == 1   \* stands for the 50 items reduceMemoryFootprint tolerates
ShrinkKeep == 2        \* stands for the 75 items it keeps

\* ------------------------------------------------------------ the inputs
Null == [absent |-> TRUE]         \* undefined / null / a missing entry
RetNull == "null"                 \* get's null result
Values == {"v1", "v2"}
Circular == "cyc"                 \* an object JSON.stringify throws on
Dated == "date"                   \* a value holding a Date: JSON writes a string
Registered == {"user", "appointments", "services", "shops"}
Namespaces == Registered \cup {"misc"}     \* 'misc' is not in CACHE_CONFIGS
LocalKeys(ns) == IF ns = "shops" THEN {"a", "b"} ELSE {"a"}
Platforms == {"web", "ios"}
Clients == {"p1", "p2"}
Procs == Clients \cup {"ctor", "timer"}     \* 'timer': the sweeper's callback

\* -------------------------------------------------------- pure functions
CACHE_CONFIGS ==
  [ns \in Registered |->
     IF ns = "user"
     THEN [ttl |-> TtlUser, maxSize |-> CapUser,
           priority |-> "high", persist |-> TRUE]
     ELSE IF ns = "appointments"
     THEN [ttl |-> TtlAppointments, maxSize |-> CapAppointments,
           priority |-> "high", persist |-> TRUE]
     ELSE IF ns = "services"
     THEN [ttl |-> TtlServices, maxSize |-> CapServices,
           priority |-> "medium", persist |-> TRUE]
     ELSE [ttl |-> TtlShops, maxSize |-> CapShops,
           priority |-> "low", persist |-> FALSE]]

DefaultConfig ==
  [ttl |-> TtlDefault, maxSize |-> CapDefault, priority |-> "medium", persist |-> FALSE]

\* getConfig reads the (mutable) maxSize of a registered namespace from ms
getConfig(ms, ns) ==
  IF ns \in Registered
  THEN [CACHE_CONFIGS[ns] EXCEPT !.maxSize = ms[ns]]
  ELSE DefaultConfig

generateKey(ns, k) == <<"cache", ns, k>>

getNamespaceFromKey(key) == IF Len(key) >= 2 /\ key[2] # "" THEN key[2] ELSE "default"

AllKeys == UNION {{generateKey(ns, k) : k \in LocalKeys(ns)} : ns \in Namespaces}

Serializable(data) == data # Circular

\* JSON.stringify of the value, measured: the two values differ in size; the
\* catch answers the default estimate
estimateSize(data) ==
  IF ~Serializable(data) THEN DefaultEstimate
  ELSE IF data = "v1" THEN SmallSize ELSE LargeSize

\* item.size || estimateSize(item.data)
sizeOf(item) == IF item.size # 0 THEN item.size ELSE estimateSize(item.data)

\* a sliding expiration: the age is counted from the last access
isExpiredSinceAccess(item, t) == t - item.lastAccessed > item.ttl

isExpired(item, t) == t - item.timestamp > item.ttl

\* what JSON.parse(JSON.stringify(data)) gives: the value itself for plain
\* data, the ISO string in place of a Date
ViaJSON(data) == IF data = Dated THEN "iso" ELSE data

\* JSON.stringify / JSON.parse of a CacheItem; stringify throws on an item
\* whose data is not serializable, parse on a string that is not JSON
Stringify(item) == [json |-> [item EXCEPT !.data = ViaJSON(@)]]
CanStringify(item) == Serializable(item.data)
Garbage == [garbage |-> TRUE]
Parses(str) == str # Garbage
Parse(str) == str.json

NamespaceKeys(mc, ns) ==
  {key \in DOMAIN mc : mc[key] # Null /\ getNamespaceFromKey(key) = ns}

\* an admission test that looks at the byte budget only
canAddToMemoryBytesOnly(mc, cms, ms, mms, key, item) ==
  cms + sizeOf(item) <= mms

canAddToMemory(mc, cms, ms, mms, key, item) ==
  LET namespace == getNamespaceFromKey(key)
      config == getConfig(ms, namespace)
  IN  IF Cardinality(NamespaceKeys(mc, namespace)) >= config.maxSize
      THEN FALSE
      ELSE cms + sizeOf(item) <= mms

\* a size tracking that subtracts the old size and never adds the new one
updateMemorySizeOldOnly(cms, item, oldItem) ==
  cms - (IF oldItem = Null THEN 0 ELSE sizeOf(oldItem))

updateMemorySize(cms, item, oldItem) ==
  cms + sizeOf(item) - (IF oldItem = Null THEN 0 ELSE sizeOf(oldItem))

updateAccess(item, t) ==
  [item EXCEPT !.accessCount = @ + 1, !.lastAccessed = t]

priorityOrder(p) == IF p = "low" THEN 0 ELSE IF p = "medium" THEN 1 ELSE 2

\* the comparator of evictItems' sort: negative, zero or positive
compareItems(a, b) ==
  LET priorityDiff == priorityOrder(a.priority) - priorityOrder(b.priority)
      accessDiff == a.lastAccessed - b.lastAccessed
  IN  IF priorityDiff # 0 THEN priorityDiff
      ELSE IF accessDiff # 0 THEN accessDiff
      ELSE a.accessCount - b.accessCount

\* an eviction that takes the items that come last in the order
evictItemsFromTheEnd(mc, cms, st, ns, maxSize) ==
  LET nsKeys == NamespaceKeys(mc, ns)
      n == Cardinality(nsKeys)
  IN  IF n <= maxSize THEN [mc |-> mc, cms |-> cms, st |-> st]
      ELSE
        LET victims == CHOOSE V \in SUBSET nsKeys :
                         /\ Cardinality(V) = n - maxSize
                         /\ \A x \in V, y \in nsKeys \ V :
                               compareItems(mc[x], mc[y]) >= 0
        IN  [mc |-> [key \in DOMAIN mc |-> IF key \in victims THEN Null ELSE mc[key]],
             cms |-> cms + Cardinality(victims),
             st |-> [st EXCEPT !.evictions = @ + Cardinality(victims)]]

\* evictItems: the first (n - maxSize) items of the namespace in sorted order
\* leave the map; each removal passes through updateMemorySize(key, item).
evictItems(mc, cms, st, ns, maxSize) ==
  LET nsKeys == NamespaceKeys(mc, ns)
      n == Cardinality(nsKeys)
  IN  IF n <= maxSize THEN [mc |-> mc, cms |-> cms, st |-> st]
      ELSE
        LET victims == CHOOSE V \in SUBSET nsKeys :
                         /\ Cardinality(V) = n - maxSize
                         /\ \A x \in V, y \in nsKeys \ V :
                               compareItems(mc[x], mc[y]) <= 0
            RECURSIVE total(_)
            total(S) == IF S = {} THEN 0
                        ELSE LET x == CHOOSE y \in S : TRUE
                             IN  (updateMemorySize(0, mc[x], Null)) + total(S \ {x})
        IN  [mc |-> [key \in DOMAIN mc |-> IF key \in victims THEN Null ELSE mc[key]],
             cms |-> cms + total(victims),
             st |-> [st EXCEPT !.evictions = @ + Cardinality(victims)]]

\* optimizeForPlatform
platformMemory(os) == IF os = "web" THEN 2 * MemoryBudget ELSE MemoryBudget \div 2
platformMaxSize(os, ms) ==
  IF os = "web" THEN ms ELSE [ns \in DOMAIN ms |-> (ms[ns] * 6) \div 10]

\* ------------------------------------------------------------- the state
VARIABLES
  memoryCache,        \* Map<string, CacheItem>: key -> item, Null when absent
  currentMemorySize,  \* the running byte counter
  maxMemorySize,      \* the byte budget in force
  maxSize,            \* CACHE_CONFIGS[ns].maxSize, which optimizeForPlatform rewrites
  cacheStats,         \* hits, misses, evictions, totalRequests, errors
  isInitialized,
  cleanupInterval,    \* TRUE when the field holds a timer handle
  timers,             \* sweeper intervals alive in the host
  listeners,          \* AppState 'change' subscriptions alive in the host
  storage,            \* AsyncStorage: key -> string, Null when absent
  platform,           \* Platform.OS
  now,                \* Date.now()
  pc,                 \* where each call stands
  call,               \* each call's arguments and locals
  hist,               \* observer: the calls completed back to back by one caller
  depth,              \* observer: how many of them it remembers
  lastSet,            \* observer: per key, the set whose synchronous part ran last
  callsLeft,
  faultsLeft,
  destroyed,          \* observer: destroy() has returned
  saved,              \* observer: the set that returned last before a restart
  removed             \* observer: the keys remove() was called on, no set since

vars == <<memoryCache, currentMemorySize, maxMemorySize, maxSize, cacheStats,
          isInitialized, cleanupInterval, timers, listeners, storage, platform,
          now, pc, call, hist, depth, lastSet, callsLeft, faultsLeft,
          destroyed, saved, removed>>

\* the fields of the service, as one value the synchronous code transforms
Cur ==
  [mc |-> memoryCache, cms |-> currentMemorySize, mms |-> maxMemorySize,
   ms |-> maxSize, st |-> cacheStats, ini |-> isInitialized,
   ci |-> cleanupInterval, tm |-> timers, ls |-> listeners]

Apply(h) ==
  /\ memoryCache' = h.mc
  /\ currentMemorySize' = h.cms
  /\ maxMemorySize' = h.mms
  /\ maxSize' = h.ms
  /\ cacheStats' = h.st
  /\ isInitialized' = h.ini
  /\ cleanupInterval' = h.ci
  /\ timers' = h.tm
  /\ listeners' = h.ls

\* outer: the method (getOrSet, preload) whose get or set this is, with force
\* its forceRefresh, cached what its get answered, seen / seenAt the item that
\* get evaluated and when, stored the durable record of the key at that time,
\* data what its fallback or loader resolved with, calls how often that was
\* invoked, faulted whether its get hit a failure; bad: the keys whose record
\* this hydration or sweep read and could not parse, why: what sent the sweep
\* to removeItem
IdleCall ==
  [op |-> "none", ns |-> "none", k |-> "none", v |-> "none",
   read |-> Null, keys |-> {}, key |-> <<>>, item |-> Null, cnt0 |-> 0,
   had |-> FALSE, at |-> 0,
   outer |-> "none", force |-> FALSE, cached |-> "null", seen |-> Null,
   seenAt |-> 0, stored |-> Null, data |-> "none", calls |-> 0, faulted |-> FALSE,
   bad |-> {}, why |-> "none"]

\* a record a previous run of the process may have left in AsyncStorage
PersistedBefore(ns, v) ==
  [data |-> v, timestamp |-> 0, ttl |-> CACHE_CONFIGS[ns].ttl,
   priority |-> CACHE_CONFIGS[ns].priority, accessCount |-> 1,
   lastAccessed |-> 0, size |-> estimateSize(v)]

InitialMaxSize == [ns \in Registered |-> CACHE_CONFIGS[ns].maxSize]

PersistedKeys ==
  {key \in AllKeys : getConfig(InitialMaxSize, getNamespaceFromKey(key)).persist}

\* the stores in which only the keys of namespace ns may hold such a record
StoresOf(ns) ==
  {s \in [AllKeys -> {Null} \cup {Stringify(PersistedBefore(ns, v)) : v \in Values}] :
     \A key \in AllKeys :
        getNamespaceFromKey(key) # ns \/ key \notin PersistedKeys => s[key] = Null}

\* The constructor has run: every field has its initializer's value and the
\* constructor's initialize() waits for AsyncStorage.getAllKeys().
InitWith(stores, calls, d) ==
  /\ memoryCache = [key \in AllKeys |-> Null]
  /\ currentMemorySize = 0
  /\ maxMemorySize = MemoryBudget
  /\ maxSize = InitialMaxSize
  /\ cacheStats = [hits |-> 0, misses |-> 0, evictions |-> 0,
                   totalRequests |-> 0, errors |-> 0]
  /\ isInitialized = FALSE
  /\ cleanupInterval = FALSE
  /\ timers = 0
  /\ listeners = 0
  /\ storage \in stores
  /\ platform \in Platforms
  /\ now = 0
  /\ pc = [p \in Procs |-> IF p = "ctor" THEN "init_keys" ELSE "idle"]
  /\ call = [p \in Procs |-> IF p = "ctor" THEN [IdleCall EXCEPT !.op = "init"]
                                           ELSE IdleCall]
  /\ hist = <<>>
  /\ depth = d
  /\ lastSet = [key \in AllKeys |-> Null]
  /\ callsLeft = calls
  /\ faultsLeft = MaxFaults
  /\ destroyed = FALSE
  /\ saved = Null
  /\ removed = {}

Init == InitWith(StoresOf("user"), MaxCalls, 1)

InitSeq == InitWith(StoresOf("user"), MaxCallsSeq, 2)

InitConc == InitWith(StoresOf("services"), MaxCallsConc, 1)

\* ------------------------------------------------------------- observer
\* The observer keeps the calls one caller completed back to back: a step of
\* anyone else (another caller, the constructor's initialize) empties it.
histAfter(p) == IF hist # <<>> /\ hist[1].proc # p THEN <<>> ELSE hist

push(h, e) == IF Len(h) >= depth THEN Append(Tail(h), e) ELSE Append(h, e)

\* the fault-free remove calls of c's key that came right before this call
StreakBefore(p, c) ==
  LET h == histAfter(p)
  IN  IF h # <<>> /\ h[Len(h)].op = "remove" /\ h[Len(h)].ns = c.ns /\ h[Len(h)].k = c.k
      THEN h[Len(h)]
      ELSE [rm |-> 0, had |-> FALSE]

Entry(p, c, ret, at, item, fault) ==
  LET before == StreakBefore(p, c)
  IN  [proc |-> p, op |-> c.op, ns |-> c.ns, k |-> c.k, v |-> c.v, ret |-> ret,
       at |-> at, item |-> item, cnt0 |-> c.cnt0, fault |-> fault,
       counted |-> {f \in {"hits", "misses", "errors"} : cacheStats'[f] # cacheStats[f]},
       rm |-> IF c.op = "remove"
              THEN (IF fault THEN 0 ELSE IF before.rm >= 2 THEN 2 ELSE before.rm + 1)
              ELSE before.rm,
       had |-> IF c.op = "remove" /\ before.rm = 0 THEN c.had ELSE before.had,
       outer |-> c.outer, force |-> c.force, cached |-> c.cached, seen |-> c.seen,
       seenAt |-> c.seenAt, stored |-> c.stored, data |-> c.data, calls |-> c.calls,
       faulted |-> c.faulted]

\* the method p called returns ret to p
Finish(p, c, ret, at, item, fault) ==
  /\ pc' = [pc EXCEPT ![p] = "idle"]
  /\ call' = [call EXCEPT ![p] = IdleCall]
  /\ hist' = push(histAfter(p), Entry(p, c, ret, at, item, fault))

\* the call of p goes on to its next await
Goto(p, c, label) ==
  /\ pc' = [pc EXCEPT ![p] = label]
  /\ call' = [call EXCEPT ![p] = c]
  /\ hist' = histAfter(p)

\* getOrSet that gives up when its set failed
getOrSetAfterSetChecked(data, success) == IF success = "true" THEN data ELSE RetNull

\* getOrSet: a cached value is returned as it is; the fallback's result is
\* returned whatever set answered
getOrSetAfterGet(cached) == [load |-> cached = RetNull, ret |-> cached]
getOrSetAfterSet(data, success) == data

\* preload: the loader runs only if get answered null; the result is set's
preloadAfterGet(existing) == [load |-> existing = RetNull, ret |-> "true"]
preloadAfterSet(data, success) == success

\* get, set or remove returns ret: to p, or to the getOrSet or preload that
\* awaits it and goes on
Return(p, c, ret, at, item, fault) ==
  IF c.outer = "none" THEN Finish(p, c, ret, at, item, fault)
  ELSE IF c.op = "get"
  THEN LET next == IF c.outer = "getOrSet" THEN getOrSetAfterGet(ret)
                                            ELSE preloadAfterGet(ret)
           c1 == [c EXCEPT !.cached = ret, !.seen = item, !.seenAt = at,
                           !.stored = storage[generateKey(c.ns, c.k)],
                           !.faulted = fault]
       IN  IF next.load THEN Goto(p, c1, "fallback")
           ELSE Finish(p, c1, next.ret, at, item, fault)
  ELSE Finish(p, c,
              IF c.outer = "getOrSet" THEN getOrSetAfterSet(c.data, ret)
                                      ELSE preloadAfterSet(c.data, ret),
              at, item, fault)

Last == hist[Len(hist)]

\* the call op has just returned to its caller and nothing has run since
JustReturned(op) == hist # <<>> /\ Last.op = op /\ pc[Last.proc] = "idle"

bump(st, field) == [st EXCEPT ![field] = @ + 1]

InitInFlight == \E q \in Procs : pc[q] \in {"init_keys", "init_loop", "init_item"}

\* ------------------------------------------- the synchronous code of a call
\* initialize(), from the end of the hydration pass to isInitialized = true
initFinish(h) ==
  [h EXCEPT !.ci = TRUE, !.tm = @ + 1, !.ls = @ + 1,
            !.mms = platformMemory(platform),
            !.ms = platformMaxSize(platform, @),
            !.ini = TRUE]

\* a hydration that loads records of every priority
hydrateItemAnyPriority(h, key, str, t) ==
  IF str = Null THEN h
  ELSE IF ~Parses(str) THEN h
  ELSE LET parsedItem == Parse(str)
       IN  IF ~isExpired(parsedItem, t)
              /\ canAddToMemory(h.mc, h.cms, h.ms, h.mms, key, parsedItem)
           THEN [h EXCEPT !.mc = [@ EXCEPT ![key] = parsedItem],
                          !.cms = updateMemorySize(@, parsedItem, Null)]
           ELSE h

\* a hydration that stamps the item with the time of its loading
hydrateItemRestamped(h, key, str, t) ==
  IF str = Null THEN h
  ELSE IF ~Parses(str) THEN h
  ELSE LET parsedItem == [Parse(str) EXCEPT !.timestamp = t]
       IN  IF parsedItem.priority = "high" /\ ~isExpired(parsedItem, t)
              /\ canAddToMemory(h.mc, h.cms, h.ms, h.mms, key, parsedItem)
           THEN [h EXCEPT !.mc = [@ EXCEPT ![key] = parsedItem],
                          !.cms = updateMemorySize(@, parsedItem, Null)]
           ELSE h

\* loadPersistedHighPriorityItems, one key: the record read is parsed and, when
\* of high priority, unexpired and admissible, put into the map; JSON.parse
\* throwing lands in the inner catch, which warns and goes to the next key
hydrateItem(h, key, str, t) ==
  IF str = Null THEN h
  ELSE IF ~Parses(str) THEN h
  ELSE LET parsedItem == Parse(str)
       IN  IF parsedItem.priority = "high" /\ ~isExpired(parsedItem, t)
              /\ canAddToMemory(h.mc, h.cms, h.ms, h.mms, key, parsedItem)
           THEN [h EXCEPT !.mc = [@ EXCEPT ![key] = parsedItem],
                          !.cms = updateMemorySize(@, parsedItem, Null)]
           ELSE h

\* get, from totalRequests++ to the return or to the await of getItem
getSync(h, ns, key, t) ==
  LET st1 == bump(h.st, "totalRequests")
      memoryItem == h.mc[key]
  IN  IF memoryItem # Null
      THEN IF isExpired(memoryItem, t)
           THEN [h |-> [h EXCEPT !.st = st1,
                                 !.mc = [@ EXCEPT ![key] = Null],
                                 !.cms = updateMemorySize(@, memoryItem, Null)],
                 await |-> FALSE, ret |-> RetNull, item |-> memoryItem]
           ELSE [h |-> [h EXCEPT !.st = bump(st1, "hits"),
                                 !.mc = [@ EXCEPT ![key] = updateAccess(memoryItem, t)]],
                 await |-> FALSE, ret |-> memoryItem.data, item |-> memoryItem]
      ELSE IF getConfig(h.ms, ns).persist
           THEN [h |-> [h EXCEPT !.st = st1],
                 await |-> TRUE, ret |-> RetNull, item |-> Null]
           ELSE [h |-> [h EXCEPT !.st = bump(st1, "misses")],
                 await |-> FALSE, ret |-> RetNull, item |-> Null]

\* get, resumed with the string getItem read; JSON.parse throwing lands in
\* the catch of get, which counts an error and returns null
getResume(h, key, str, t) ==
  IF str = Null
  THEN [h |-> [h EXCEPT !.st = bump(@, "misses")],
        await |-> FALSE, ret |-> RetNull, item |-> Null]
  ELSE IF ~Parses(str)
  THEN [h |-> [h EXCEPT !.st = bump(@, "errors")],
        await |-> FALSE, ret |-> RetNull, item |-> Garbage]
  ELSE LET parsedItem == Parse(str)
       IN  IF ~isExpired(parsedItem, t)
           THEN [h |-> [(IF canAddToMemory(h.mc, h.cms, h.ms, h.mms, key, parsedItem)
                         THEN [h EXCEPT !.mc = [@ EXCEPT ![key] = parsedItem],
                                        !.cms = updateMemorySize(@, parsedItem, Null)]
                         ELSE h)
                        EXCEPT !.st = bump(@, "hits")],
                 await |-> FALSE, ret |-> parsedItem.data, item |-> parsedItem]
           ELSE [h |-> h, await |-> TRUE, ret |-> RetNull, item |-> parsedItem]

\* set without the test of config.persist: every namespace is written through
setSyncAlwaysPersists(h, ns, key, data, t) ==
  LET config == getConfig(h.ms, ns)
      cacheItem == [data |-> data, timestamp |-> t, ttl |-> config.ttl,
                    priority |-> config.priority, accessCount |-> 1,
                    lastAccessed |-> t, size |-> estimateSize(data)]
      oldItem == h.mc[key]
      h1 == IF canAddToMemory(h.mc, h.cms, h.ms, h.mms, key, cacheItem)
            THEN LET mc1 == [h.mc EXCEPT ![key] = cacheItem]
                     cms1 == updateMemorySize(h.cms, cacheItem, oldItem)
                     ev == evictItems(mc1, cms1, h.st, ns, config.maxSize)
                 IN  [h EXCEPT !.mc = ev.mc, !.cms = ev.cms, !.st = ev.st]
            ELSE h
  IN  [h |-> h1, await |-> TRUE, ret |-> "true", item |-> cacheItem]

\* set that treats a refused admission as a failure
setSyncRefusalFails(h, ns, key, data, t) ==
  LET config == getConfig(h.ms, ns)
      cacheItem == [data |-> data, timestamp |-> t, ttl |-> config.ttl,
                    priority |-> config.priority, accessCount |-> 1,
                    lastAccessed |-> t, size |-> estimateSize(data)]
      oldItem == h.mc[key]
      admit == canAddToMemory(h.mc, h.cms, h.ms, h.mms, key, cacheItem)
      h1 == IF admit
            THEN LET mc1 == [h.mc EXCEPT ![key] = cacheItem]
                     cms1 == updateMemorySize(h.cms, cacheItem, oldItem)
                     ev == evictItems(mc1, cms1, h.st, ns, config.maxSize)
                 IN  [h EXCEPT !.mc = ev.mc, !.cms = ev.cms, !.st = ev.st]
            ELSE h
  IN  IF ~admit \/ (config.persist /\ ~CanStringify(cacheItem))
      THEN [h |-> [h1 EXCEPT !.st = bump(@, "errors")],
            await |-> FALSE, ret |-> "false", item |-> cacheItem]
      ELSE [h |-> h1, await |-> config.persist, ret |-> "true", item |-> cacheItem]

\* set, from the building of the item to the return or to the await of setItem;
\* JSON.stringify(cacheItem) is evaluated before the await and may throw into
\* the catch
setSync(h, ns, key, data, t) ==
  LET config == getConfig(h.ms, ns)
      cacheItem == [data |-> data, timestamp |-> t, ttl |-> config.ttl,
                    priority |-> config.priority, accessCount |-> 1,
                    lastAccessed |-> t, size |-> estimateSize(data)]
      oldItem == h.mc[key]
      h1 == IF canAddToMemory(h.mc, h.cms, h.ms, h.mms, key, cacheItem)
            THEN LET mc1 == [h.mc EXCEPT ![key] = cacheItem]
                     cms1 == updateMemorySize(h.cms, cacheItem, oldItem)
                     ev == evictItems(mc1, cms1, h.st, ns, config.maxSize)
                 IN  [h EXCEPT !.mc = ev.mc, !.cms = ev.cms, !.st = ev.st]
            ELSE h
  IN  IF config.persist /\ ~CanStringify(cacheItem)
      THEN [h |-> [h1 EXCEPT !.st = bump(@, "errors")],
            await |-> FALSE, ret |-> "false", item |-> cacheItem]
      ELSE [h |-> h1, await |-> config.persist, ret |-> "true", item |-> cacheItem]

\* remove that forgets the durable tier
removeSyncHotOnly(h, ns, key) ==
  LET oldItem == h.mc[key]
      h1 == IF oldItem # Null
            THEN [h EXCEPT !.mc = [@ EXCEPT ![key] = Null],
                           !.cms = updateMemorySize(@, oldItem, Null)]
            ELSE h
  IN  [h |-> h1, await |-> FALSE]

\* remove, from the lookup to the return or to the await of removeItem
removeSync(h, ns, key) ==
  LET oldItem == h.mc[key]
      h1 == IF oldItem # Null
            THEN [h EXCEPT !.mc = [@ EXCEPT ![key] = Null],
                           !.cms = updateMemorySize(@, oldItem, Null)]
            ELSE h
  IN  [h |-> h1, await |-> getConfig(h.ms, ns).persist]

\* -------------------------------------------------------------- actions
\* the values Date.now() may have when it is next read
Later == now .. MaxTime

CacheKey(c) == generateKey(c.ns, c.k)

\* the body of a public method, run on the fields h once initialize() is over
RunBody(p, c, h, t) ==
  CASE c.op = "get" ->
         LET r == getSync(h, c.ns, CacheKey(c), t)
         IN  /\ Apply(r.h)
             /\ UNCHANGED <<lastSet, removed>>
             /\ IF r.await THEN Goto(p, c, "get_read")
                ELSE Return(p, c, r.ret, t, r.item, FALSE)
    [] c.op = "set" ->
         LET r == setSync(h, c.ns, CacheKey(c), c.v, t)
             c1 == [c EXCEPT !.item = r.item,
                             !.cnt0 = Cardinality(NamespaceKeys(h.mc, c.ns))]
         IN  /\ Apply(r.h)
             /\ lastSet' = [lastSet EXCEPT ![CacheKey(c)] =
                              [data |-> c.v,
                               admitted |-> r.h.mc[CacheKey(c)] = r.item,
                               settled |-> \A q \in Procs \ {p} :
                                  pc[q] \notin {"init_keys", "init_loop", "init_item"}]]
             /\ removed' = removed \ {CacheKey(c)}
             /\ IF r.await THEN Goto(p, c1, "set_write")
                ELSE Return(p, c1, r.ret, t, r.item, FALSE)
    [] OTHER ->
         \* the constructor's initialize(): nothing follows it
         /\ Apply(h)
         /\ UNCHANGED <<lastSet, removed>>
         /\ pc' = [pc EXCEPT ![p] = "idle"]
         /\ call' = [call EXCEPT ![p] = IdleCall]
         /\ hist' = histAfter(p)

\* a public method that starts with: if (!this.isInitialized) await this.initialize()
Start(p, c) ==
  /\ pc[p] = "idle"
  /\ callsLeft > 0
  /\ callsLeft' = callsLeft - 1
  /\ IF ~isInitialized
     THEN Apply(Cur) /\ Goto(p, c, "init_keys") /\ UNCHANGED <<now, lastSet, removed>>
     ELSE \E t \in Later : RunBody(p, c, Cur, t) /\ now' = t
  /\ UNCHANGED <<storage, platform, depth, destroyed, saved, faultsLeft>>

CallGet(p, ns, k) ==
  Start(p, [IdleCall EXCEPT !.op = "get", !.ns = ns, !.k = k])

CallSet(p, ns, k, v) ==
  Start(p, [IdleCall EXCEPT !.op = "set", !.ns = ns, !.k = k, !.v = v])

CallRemove(p, ns, k) ==
  /\ pc[p] = "idle"
  /\ callsLeft > 0
  /\ callsLeft' = callsLeft - 1
  /\ LET c == [IdleCall EXCEPT !.op = "remove", !.ns = ns, !.k = k,
                               !.had = memoryCache[generateKey(ns, k)] # Null]
         r == removeSync(Cur, ns, CacheKey(c))
     IN  /\ Apply(r.h)
         /\ lastSet' = [lastSet EXCEPT ![CacheKey(c)] = Null]
         /\ removed' = removed \cup {CacheKey(c)}
         /\ IF r.await THEN Goto(p, c, "remove_write")
            ELSE Return(p, c, "true", now, Null, FALSE)
  /\ UNCHANGED <<storage, platform, now, depth, destroyed, saved, faultsLeft>>

\* a step that changes neither the fields of the service nor the clock
Quiet == Apply(Cur) /\ UNCHANGED <<platform, now, depth, destroyed, saved, lastSet, removed, callsLeft>>

\* a durable operation throws
Fault == faultsLeft > 0 /\ faultsLeft' = faultsLeft - 1

\* await AsyncStorage.getAllKeys(), filtered on the 'cache:' prefix
InitKeys(p) ==
  /\ pc[p] = "init_keys"
  /\ Goto(p, [call[p] EXCEPT !.keys = {key \in DOMAIN storage :
                                 storage[key] # Null /\ key[1] = "cache"}],
          "init_loop")
  /\ Quiet
  /\ UNCHANGED <<storage, faultsLeft>>

\* getAllKeys throws: the outer catch of loadPersistedHighPriorityItems
InitKeysFails(p) ==
  /\ pc[p] = "init_keys"
  /\ Fault
  /\ Goto(p, [call[p] EXCEPT !.keys = {}], "init_loop")
  /\ Quiet
  /\ UNCHANGED storage

\* await AsyncStorage.getItem(key) of the hydration loop
InitRead(p, key) ==
  /\ pc[p] = "init_loop"
  /\ key \in call[p].keys
  /\ Goto(p, [call[p] EXCEPT !.keys = @ \ {key}, !.key = key, !.read = storage[key]],
          "init_item")
  /\ Quiet
  /\ UNCHANGED <<storage, faultsLeft>>

\* getItem throws: the inner catch skips the key
InitReadFails(p, key) ==
  /\ pc[p] = "init_loop"
  /\ key \in call[p].keys
  /\ Fault
  /\ Goto(p, [call[p] EXCEPT !.keys = @ \ {key}], "init_loop")
  /\ Quiet
  /\ UNCHANGED storage

InitItem(p) ==
  /\ pc[p] = "init_item"
  /\ \E t \in Later :
        /\ Apply(hydrateItem(Cur, call[p].key, call[p].read, t))
        /\ now' = t
  /\ Goto(p, [call[p] EXCEPT !.key = <<>>, !.read = Null,
                             !.bad = IF call[p].read # Null /\ ~Parses(call[p].read)
                                     THEN @ \cup {call[p].key} ELSE @],
          "init_loop")
  /\ UNCHANGED <<storage, platform, depth, destroyed, saved, lastSet, removed, callsLeft, faultsLeft>>

\* the loop is over: the rest of initialize(), then the method that awaited it
InitDone(p) ==
  /\ pc[p] = "init_loop"
  /\ call[p].keys = {}
  /\ \E t \in Later : RunBody(p, call[p], initFinish(Cur), t) /\ now' = t
  /\ UNCHANGED <<storage, platform, depth, destroyed, saved, callsLeft, faultsLeft>>

\* await AsyncStorage.getItem(cacheKey) of get
GetRead(p) ==
  /\ pc[p] = "get_read"
  /\ Goto(p, [call[p] EXCEPT !.read = storage[CacheKey(call[p])]], "get_cont")
  /\ Quiet
  /\ UNCHANGED <<storage, faultsLeft>>

\* a durable operation of get throws: the catch counts an error
GetFails(p) ==
  /\ pc[p] \in {"get_read", "get_remove"}
  /\ Fault
  /\ Apply([Cur EXCEPT !.st = bump(@, "errors")])
  /\ Return(p, call[p], RetNull, IF pc[p] = "get_remove" THEN call[p].at ELSE now,
            call[p].item, TRUE)
  /\ UNCHANGED <<storage, platform, now, depth, destroyed, saved, lastSet, removed, callsLeft>>

GetCont(p) ==
  /\ pc[p] = "get_cont"
  /\ \E t \in Later :
        LET r == getResume(Cur, CacheKey(call[p]), call[p].read, t)
        IN  /\ Apply(r.h)
            /\ now' = t
            /\ IF r.await
               THEN Goto(p, [call[p] EXCEPT !.read = Null, !.item = r.item, !.at = t],
                         "get_remove")
               ELSE Return(p, call[p], r.ret, t, r.item, FALSE)
  /\ UNCHANGED <<storage, platform, depth, destroyed, saved, lastSet, removed, callsLeft, faultsLeft>>

\* await AsyncStorage.removeItem(cacheKey) of get, for an expired record
GetRemove(p) ==
  /\ pc[p] = "get_remove"
  /\ storage' = [storage EXCEPT ![CacheKey(call[p])] = Null]
  /\ Apply([Cur EXCEPT !.st = bump(@, "misses")])
  /\ Return(p, call[p], RetNull, call[p].at, call[p].item, FALSE)
  /\ UNCHANGED <<platform, now, depth, destroyed, saved, lastSet, removed, callsLeft, faultsLeft>>

\* await AsyncStorage.setItem(cacheKey, JSON.stringify(cacheItem)) of set
SetWrite(p) ==
  /\ pc[p] = "set_write"
  /\ storage' = [storage EXCEPT ![CacheKey(call[p])] = Stringify(call[p].item)]
  /\ Apply(Cur)
  /\ Return(p, call[p], "true", call[p].item.timestamp, call[p].item, FALSE)
  /\ UNCHANGED <<platform, now, depth, destroyed, saved, lastSet, removed, callsLeft, faultsLeft>>

SetFails(p) ==
  /\ pc[p] = "set_write"
  /\ Fault
  /\ Apply([Cur EXCEPT !.st = bump(@, "errors")])
  /\ Return(p, call[p], "false", call[p].item.timestamp, call[p].item, TRUE)
  /\ UNCHANGED <<storage, platform, now, depth, destroyed, saved, lastSet, removed, callsLeft>>

\* await AsyncStorage.removeItem(cacheKey) of remove
RemoveWrite(p) ==
  /\ pc[p] = "remove_write"
  /\ storage' = [storage EXCEPT ![CacheKey(call[p])] = Null]
  /\ Apply(Cur)
  /\ Return(p, call[p], "true", now, Null, FALSE)
  /\ UNCHANGED <<platform, now, depth, destroyed, saved, lastSet, removed, callsLeft, faultsLeft>>

RemoveFails(p) ==
  /\ pc[p] = "remove_write"
  /\ Fault
  /\ Apply([Cur EXCEPT !.st = bump(@, "errors")])
  /\ Return(p, call[p], "false", now, Null, TRUE)
  /\ UNCHANGED <<storage, platform, now, depth, destroyed, saved, lastSet, removed, callsLeft>>

\* getOrSet(ns, k, fallback): its first step is that of get
CallGetOrSet(p, ns, k) ==
  Start(p, [IdleCall EXCEPT !.op = "get", !.outer = "getOrSet", !.ns = ns, !.k = k])

\* getOrSet(ns, k, fallback, {forceRefresh: true}) goes to the fallback at once
CallGetOrSetForce(p, ns, k) ==
  /\ pc[p] = "idle"
  /\ callsLeft > 0
  /\ callsLeft' = callsLeft - 1
  /\ Goto(p, [IdleCall EXCEPT !.op = "get", !.outer = "getOrSet", !.force = TRUE,
                              !.ns = ns, !.k = k], "fallback")
  /\ Apply(Cur)
  /\ UNCHANGED <<storage, platform, now, depth, destroyed, saved, lastSet, removed, faultsLeft>>

CallPreload(p, ns, k) ==
  Start(p, [IdleCall EXCEPT !.op = "get", !.outer = "preload", !.ns = ns, !.k = k])

\* await fallback() / await loader() resolves with v, and set(ns, k, v) starts
FallbackResolves(p, v) ==
  /\ pc[p] = "fallback"
  /\ LET c == [call[p] EXCEPT !.op = "set", !.v = v, !.data = v, !.calls = @ + 1]
     IN  IF ~isInitialized
         THEN Apply(Cur) /\ Goto(p, c, "init_keys") /\ UNCHANGED <<now, lastSet, removed>>
         ELSE \E t \in Later : RunBody(p, c, Cur, t) /\ now' = t
  /\ UNCHANGED <<storage, platform, depth, destroyed, saved, callsLeft, faultsLeft>>

\* await fallback() / await loader() throws: preload catches it and answers
\* false, getOrSet has no catch and the exception reaches its caller
FallbackThrows(p) ==
  /\ pc[p] = "fallback"
  /\ Quiet
  /\ Finish(p, [call[p] EXCEPT !.calls = @ + 1],
            IF call[p].outer = "preload" THEN "false" ELSE "throws",
            now, Null, FALSE)
  /\ UNCHANGED <<storage, faultsLeft>>

\* The process ends right after a set has returned true and starts again: the
\* module is evaluated anew (CACHE_CONFIGS, the fields, the constructor), the
\* durable store and the clock go on.
Restart ==
  /\ saved = Null
  /\ removed' = {}
  /\ JustReturned("set") /\ Last.ret = "true"
  /\ \A p \in Clients : pc[p] = "idle"
  /\ saved' = Last
  /\ memoryCache' = [key \in AllKeys |-> Null]
  /\ currentMemorySize' = 0
  /\ maxMemorySize' = MemoryBudget
  /\ maxSize' = InitialMaxSize
  /\ cacheStats' = [hits |-> 0, misses |-> 0, evictions |-> 0,
                    totalRequests |-> 0, errors |-> 0]
  /\ isInitialized' = FALSE
  /\ cleanupInterval' = FALSE
  /\ timers' = 0
  /\ listeners' = 0
  /\ pc' = [p \in Procs |-> IF p = "ctor" THEN "init_keys" ELSE "idle"]
  /\ call' = [p \in Procs |-> IF p = "ctor" THEN [IdleCall EXCEPT !.op = "init"]
                                            ELSE IdleCall]
  /\ hist' = <<>>
  /\ lastSet' = [key \in AllKeys |-> Null]
  /\ UNCHANGED <<storage, platform, now, depth, callsLeft, faultsLeft, destroyed>>

\* the bytes updateMemorySize adds up for the items under keys
RECURSIVE addSizes(_, _)
addSizes(mc, keys) ==
  IF keys = {} THEN 0
  ELSE LET key == CHOOSE x \in keys : TRUE
       IN  updateMemorySize(addSizes(mc, keys \ {key}), mc[key], Null)

\* a shrink without the slice: every item of priority high or medium stays
reduceMemoryFootprintUnsliced(h) ==
  LET resident == {key \in DOMAIN h.mc : h.mc[key] # Null}
      kept == {key \in resident : h.mc[key].priority \in {"high", "medium"}}
  IN  IF Cardinality(resident) <= ShrinkThreshold THEN {h}
      ELSE {[h EXCEPT !.mc = [key \in DOMAIN @ |-> IF key \in kept THEN @[key] ELSE Null],
                      !.cms = addSizes(h.mc, kept)]}

\* reduceMemoryFootprint: the results it can have.  The items of priority high
\* or medium are taken in the Map's insertion order and the first ShrinkKeep
\* of them are put back; the model keeps no insertion order, so itemsToKeep
\* is any ShrinkKeep of them (all of them when they are fewer).
reduceMemoryFootprint(h) ==
  LET resident == {key \in DOMAIN h.mc : h.mc[key] # Null}
      eligible == {key \in resident : h.mc[key].priority \in {"high", "medium"}}
      n == IF Cardinality(eligible) < ShrinkKeep THEN Cardinality(eligible)
           ELSE ShrinkKeep
  IN  IF Cardinality(resident) <= ShrinkThreshold THEN {h}
      ELSE {[h EXCEPT !.mc = [key \in DOMAIN @ |->
                                 IF key \in itemsToKeep THEN @[key] ELSE Null],
                      !.cms = addSizes(h.mc, itemsToKeep)] :
              itemsToKeep \in {K \in SUBSET eligible : Cardinality(K) = n}}

\* handleAppStateChange(nextAppState), delivered to a live subscription; the
\* observer notes the hot tier as it was
AppStateChange(nextAppState) ==
  /\ listeners > 0
  /\ IF nextAppState \in {"background", "inactive"}
     THEN \E h \in reduceMemoryFootprint(Cur) : Apply(h)
     ELSE Apply(Cur)
  /\ hist' = <<[proc |-> "host", op |-> "appState", ns |-> "none", k |-> "none",
                nextAppState |-> nextAppState, before |-> memoryCache]>>
  /\ UNCHANGED <<storage, platform, now, pc, call, depth, lastSet, removed, callsLeft,
                 faultsLeft, destroyed, saved>>

\* cleanupExpired, the synchronous pass over the map: nothing at all when the
\* map is empty; otherwise every expired item is deleted, updateMemorySize is
\* called with it, and cleanupPersistentExpired() is started
cleanupExpired(h, t) ==
  LET expiredKeys == {key \in DOMAIN h.mc : h.mc[key] # Null /\ isExpired(h.mc[key], t)}
  IN  IF \A key \in DOMAIN h.mc : h.mc[key] = Null
      THEN [h |-> h, persistent |-> FALSE]
      ELSE [h |-> [h EXCEPT !.mc = [key \in DOMAIN @ |->
                                       IF key \in expiredKeys THEN Null ELSE @[key]],
                            !.cms = @ + addSizes(h.mc, expiredKeys)],
            persistent |-> TRUE]

\* a live interval fires: cleanupExpired() runs, up to the await of getAllKeys
\* in cleanupPersistentExpired
SweepStart ==
  /\ timers > 0
  /\ pc["timer"] = "idle"
  /\ callsLeft > 0
  /\ callsLeft' = callsLeft - 1
  /\ \E t \in Later :
        LET r == cleanupExpired(Cur, t)
            c == [IdleCall EXCEPT !.op = "sweep", !.at = t]
        IN  /\ Apply(r.h)
            /\ now' = t
            /\ IF r.persistent THEN Goto("timer", c, "sweep_keys")
               ELSE Finish("timer", c, "skipped", t, Null, FALSE)
  /\ UNCHANGED <<storage, platform, depth, destroyed, saved, lastSet, removed, faultsLeft>>

\* await AsyncStorage.getAllKeys() of the sweep, filtered on the prefix
SweepKeys ==
  /\ pc["timer"] = "sweep_keys"
  /\ Goto("timer", [call["timer"] EXCEPT !.keys = {key \in DOMAIN storage :
                                         storage[key] # Null /\ key[1] = "cache"}],
          "sweep_loop")
  /\ Quiet
  /\ UNCHANGED <<storage, faultsLeft>>

\* getAllKeys throws: the outer catch ends the sweep
SweepKeysFails ==
  /\ pc["timer"] = "sweep_keys"
  /\ Fault
  /\ Quiet
  /\ Finish("timer", call["timer"], "failed", call["timer"].at, Null, TRUE)
  /\ UNCHANGED storage

\* await AsyncStorage.getItem(key) of the sweep
SweepRead(key) ==
  /\ pc["timer"] = "sweep_loop"
  /\ key \in call["timer"].keys
  /\ Goto("timer", [call["timer"] EXCEPT !.keys = @ \ {key}, !.key = key,
                                         !.read = storage[key]],
          "sweep_item")
  /\ Quiet
  /\ UNCHANGED <<storage, faultsLeft>>

\* getItem throws: the inner catch goes on to removeItem(key)
SweepReadFails(key) ==
  /\ pc["timer"] = "sweep_loop"
  /\ key \in call["timer"].keys
  /\ Fault
  /\ Goto("timer", [call["timer"] EXCEPT !.keys = @ \ {key}, !.key = key,
                                         !.why = "catch", !.faulted = TRUE],
          "sweep_remove")
  /\ Quiet
  /\ UNCHANGED storage

\* the record read is parsed and tested: an expired one goes to removeItem, an
\* unparsable one to the inner catch and its removeItem
SweepItem ==
  /\ pc["timer"] = "sweep_item"
  /\ \E t \in Later :
        LET c == call["timer"]
            str == c.read
            done == [c EXCEPT !.key = <<>>, !.read = Null]
        IN  /\ now' = t
            /\ IF str = Null THEN Goto("timer", done, "sweep_loop")
               ELSE IF ~Parses(str)
               THEN Goto("timer", [c EXCEPT !.read = Null, !.why = "catch",
                                            !.bad = @ \cup {c.key}], "sweep_remove")
               ELSE IF isExpired(Parse(str), t)
               THEN Goto("timer", [c EXCEPT !.why = "expired"], "sweep_remove")
               ELSE Goto("timer", done, "sweep_loop")
  /\ Apply(Cur)
  /\ UNCHANGED <<storage, platform, depth, destroyed, saved, lastSet, removed, callsLeft, faultsLeft>>

\* await AsyncStorage.removeItem(key) of the sweep
SweepRemove ==
  /\ pc["timer"] = "sweep_remove"
  /\ storage' = [storage EXCEPT ![call["timer"].key] = Null]
  /\ Goto("timer", [call["timer"] EXCEPT !.key = <<>>, !.read = Null, !.why = "none"],
          "sweep_loop")
  /\ Quiet
  /\ UNCHANGED faultsLeft

\* removeItem throws: for an expired record the inner catch tries removeItem
\* again; thrown in the inner catch it reaches the outer catch, which ends the
\* sweep
SweepRemoveFails ==
  /\ pc["timer"] = "sweep_remove"
  /\ Fault
  /\ Quiet
  /\ IF call["timer"].why = "expired"
     THEN Goto("timer", [call["timer"] EXCEPT !.why = "catch", !.faulted = TRUE],
               "sweep_remove")
     ELSE Finish("timer", call["timer"], "failed", call["timer"].at, Null, TRUE)
  /\ UNCHANGED storage

\* the loop is over: cleanupPersistentExpired resolves
SweepDone ==
  /\ pc["timer"] = "sweep_loop"
  /\ call["timer"].keys = {}
  /\ Quiet
  /\ Finish("timer", call["timer"], "swept", call["timer"].at, Null,
            call["timer"].faulted)
  /\ UNCHANGED <<storage, faultsLeft>>

\* evictItems(namespace, maxSize) applied to the hot tier as it stands; the
\* observer notes the hot tier as it was
Evict(ns, target) ==
  /\ hist = <<>>
  /\ LET ev == evictItems(memoryCache, currentMemorySize, cacheStats, ns, target)
     IN  Apply([Cur EXCEPT !.mc = ev.mc, !.cms = ev.cms, !.st = ev.st])
  /\ hist' = <<[proc |-> "host", op |-> "evict", ns |-> ns, k |-> "none",
                target |-> target, before |-> memoryCache]>>
  /\ UNCHANGED <<storage, platform, now, pc, call, depth, lastSet, removed, callsLeft,
                 faultsLeft, destroyed, saved>>

\* clearNamespace, from the scan of the map to the return or to the await of
\* getAllKeys: the keys of the namespace leave the map, updateMemorySize is
\* called with each item
clearNamespaceSync(h, ns) ==
  LET keysToRemove == NamespaceKeys(h.mc, ns)
  IN  [h |-> [h EXCEPT !.mc = [key \in DOMAIN @ |->
                                  IF key \in keysToRemove THEN Null ELSE @[key]],
                       !.cms = @ + addSizes(h.mc, keysToRemove)],
       await |-> getConfig(h.ms, ns).persist]

CallClearNamespace(p, ns) ==
  /\ pc[p] = "idle"
  /\ callsLeft > 0
  /\ callsLeft' = callsLeft - 1
  /\ LET c == [IdleCall EXCEPT !.op = "clearNamespace", !.ns = ns]
         r == clearNamespaceSync(Cur, ns)
     IN  /\ Apply(r.h)
         /\ lastSet' = [key \in AllKeys |->
                          IF getNamespaceFromKey(key) = ns THEN Null ELSE lastSet[key]]
         /\ removed' = removed \cup {key \in AllKeys : getNamespaceFromKey(key) = ns}
         /\ IF r.await THEN Goto(p, c, "clear_keys")
            ELSE Finish(p, c, "true", now, Null, FALSE)
  /\ UNCHANGED <<storage, platform, now, depth, destroyed, saved, faultsLeft>>

\* await AsyncStorage.getAllKeys() of clearNamespace, filtered on
\* getNamespaceFromKey(key) === namespace
ClearKeys(p) ==
  /\ pc[p] = "clear_keys"
  /\ Quiet
  /\ LET namespacePersistentKeys ==
           {key \in DOMAIN storage :
              storage[key] # Null /\ getNamespaceFromKey(key) = call[p].ns}
     IN  IF namespacePersistentKeys = {}
         THEN Finish(p, call[p], "true", now, Null, FALSE)
         ELSE Goto(p, [call[p] EXCEPT !.keys = namespacePersistentKeys], "clear_remove")
  /\ UNCHANGED <<storage, faultsLeft>>

\* await AsyncStorage.multiRemove(namespacePersistentKeys)
ClearRemove(p) ==
  /\ pc[p] = "clear_remove"
  /\ storage' = [key \in DOMAIN storage |->
                   IF key \in call[p].keys THEN Null ELSE storage[key]]
  /\ Quiet
  /\ Finish(p, call[p], "true", now, Null, FALSE)
  /\ UNCHANGED faultsLeft

\* getAllKeys or multiRemove throws: the catch counts an error
ClearFails(p) ==
  /\ pc[p] \in {"clear_keys", "clear_remove"}
  /\ Fault
  /\ Apply([Cur EXCEPT !.st = bump(@, "errors")])
  /\ Finish(p, call[p], "false", now, Null, TRUE)
  /\ UNCHANGED <<storage, platform, now, depth, destroyed, saved, lastSet, removed, callsLeft>>

\* destroy(): clearInterval on the handle the field holds, removeEventListener
\* (which drops one subscription of the handler), the map and the counter
\* emptied, isInitialized reset
destroySync(h) ==
  [h EXCEPT !.tm = IF h.ci THEN @ - 1 ELSE @,
            !.ci = FALSE,
            !.ls = IF @ > 0 THEN @ - 1 ELSE 0,
            !.mc = [key \in DOMAIN @ |-> Null],
            !.cms = 0,
            !.ini = FALSE]

\* the owner of the service calls destroy(), once, whatever is in flight
Destroy ==
  /\ ~destroyed
  /\ destroyed' = TRUE
  /\ Apply(destroySync(Cur))
  /\ hist' = <<>>
  /\ UNCHANGED <<storage, platform, now, pc, call, depth, lastSet, removed, callsLeft,
                 faultsLeft, saved>>

\* ------------------------------------------------------- specifications
\* an initialize(), a get or a set in flight goes on
Running(procs) ==
  \E p \in procs :
    \/ InitKeys(p)
    \/ \E key \in AllKeys : InitRead(p, key)
    \/ InitItem(p)
    \/ InitDone(p)
    \/ GetRead(p)
    \/ GetCont(p)
    \/ GetRemove(p)
    \/ SetWrite(p)

Failing(procs) ==
  \E p \in procs :
    \/ InitKeysFails(p)
    \/ \E key \in AllKeys : InitReadFails(p, key)
    \/ GetFails(p)
    \/ SetFails(p)
    \/ RemoveFails(p)

\* ----------------------------------------------------------- properties
RECURSIVE SumSizes(_, _)
SumSizes(mc, keys) ==
  IF keys = {} THEN 0
  ELSE LET key == CHOOSE x \in keys : TRUE
       IN  mc[key].size + SumSizes(mc, keys \ {key})

\* the bytes of the items resident in the hot tier
ResidentBytes == SumSizes(memoryCache, {key \in AllKeys : memoryCache[key] # Null})

ResidentCount(ns) == Cardinality(NamespaceKeys(memoryCache, ns))

PersistingNamespaces == {ns \in Registered : CACHE_CONFIGS[ns].persist}

ConfiguredCap(ns) == IF ns \in Registered THEN maxSize[ns] ELSE DefaultConfig.maxSize

\* getOrSet / preload has just returned to its caller and nothing has run since
JustFinished(outer) == hist # <<>> /\ Last.outer = outer /\ pc[Last.proc] = "idle"

\* the key was held unexpired, by the hot tier or by the durable tier of a
\* persisting namespace, when the get of the call e evaluated it
PresentAtGet(e) ==
  \/ e.seen # Null /\ ~isExpired(e.seen, e.seenAt)
  \/ /\ e.ns \in PersistingNamespaces
     /\ e.stored # Null
     /\ Parses(e.stored)
     /\ ~isExpired(Parse(e.stored), e.seenAt)

\* Spec: one caller, every namespace, beside the constructor's initialize()
MainNamespaces == {"user", "shops", "misc"}

Next ==
  \/ \E ns \in MainNamespaces : \E k \in LocalKeys(ns) : CallGet("p1", ns, k)
  \/ \E ns \in MainNamespaces : \E k \in LocalKeys(ns) : \E v \in Values :
        CallSet("p1", ns, k, v)
  \/ \E ns \in MainNamespaces : \E k \in LocalKeys(ns) : CallRemove("p1", ns, k)
  \/ RemoveWrite("p1")
  \/ Running({"p1", "ctor"})
  \/ Failing({"p1", "ctor"})

Spec == Init /\ [][Next]_vars

\* SpecSeq: one caller on three keys, the observer remembering two calls
NextSeq ==
  \/ \E ns \in {"user", "shops"} : CallGet("p1", ns, "a")
  \/ \E ns \in {"user", "shops"} : \E k \in LocalKeys(ns) : CallSet("p1", ns, k, "v1")
  \/ \E ns \in {"user", "shops"} : CallRemove("p1", ns, "a")
  \/ RemoveWrite("p1")
  \/ Running({"p1", "ctor"})
  \/ Failing({"p1", "ctor"})

SpecSeq == InitSeq /\ [][NextSeq]_vars

\* SpecConc: two callers whose calls on one key of 'services' overlap
NextConc ==
  \/ \E p \in Clients : CallGet(p, "services", "a")
  \/ \E p \in Clients : \E v \in Values : CallSet(p, "services", "a", v)
  \/ Running(Procs)

SpecConc == InitConc /\ [][NextConc]_vars

\* SpecDestroy: one caller on 'user', and destroy() at any moment; no public
\* call is issued once destroy() has run
NextDestroy ==
  \/ ~destroyed /\ CallGet("p1", "user", "a")
  \/ ~destroyed /\ \E v \in Values : CallSet("p1", "user", "a", v)
  \/ Destroy
  \/ Running({"p1", "ctor"})

SpecDestroy == Init /\ [][NextDestroy]_vars

\* SpecFacade: one caller using set, getOrSet and preload on 'user' and 'shops',
\* with values and fallbacks that fail
MaxCallsFacade == 2

InitFacade == InitWith(StoresOf("user"), MaxCallsFacade, 1)

NextFacade ==
  \/ \E ns \in {"user", "shops"} : \E v \in {"v1", Circular} : CallSet("p1", ns, "a", v)
  \/ \E ns \in {"user", "shops"} : CallGetOrSet("p1", ns, "a")
  \/ \E ns \in {"user", "shops"} : CallGetOrSetForce("p1", ns, "a")
  \/ \E ns \in {"user", "shops"} : CallPreload("p1", ns, "a")
  \/ \E v \in {"v2", Circular} : FallbackResolves("p1", v)
  \/ FallbackThrows("p1")
  \/ Running({"p1", "ctor"})
  \/ GetFails("p1")
  \/ SetFails("p1")

SpecFacade == InitFacade /\ [][NextFacade]_vars

\* SpecRestart: one caller on 'user' (priority high, persisting), and a restart
\* of the process after a set
MaxCallsRestart == 3

InitRestart == InitWith(StoresOf("user"), MaxCallsRestart, 1)

NextRestart ==
  \/ \E v \in {"v1", Dated} : CallSet("p1", "user", "a", v)
  \/ CallGet("p1", "user", "a")
  \/ Restart
  \/ Running({"p1", "ctor"})
  \/ \E p \in {"p1", "ctor"} : InitKeysFails(p)
  \/ \E p \in {"p1", "ctor"} : \E key \in AllKeys : InitReadFails(p, key)
  \/ GetFails("p1")
  \/ SetFails("p1")

SpecRestart == InitRestart /\ [][NextRestart]_vars

\* SpecShrink: hydration and one caller filling the hot tier, one key in each
\* namespace, and the host delivering lifecycle transitions
MaxCallsShrink == 3

InitShrink == InitWith(StoresOf("user"), MaxCallsShrink, 1)

NextShrink ==
  \/ \E ns \in {"services", "shops", "misc"} : CallSet("p1", ns, "a", "v1")
  \/ \E nextAppState \in {"active", "background", "inactive"} :
        AppStateChange(nextAppState)
  \/ \E p \in {"p1", "ctor"} :
        \/ InitKeys(p)
        \/ \E key \in AllKeys : InitRead(p, key)
        \/ InitItem(p)
        \/ InitDone(p)
        \/ SetWrite(p)

SpecShrink == InitShrink /\ [][NextShrink]_vars

\* the stores in which the keys of namespace ns may hold a record of an
\* earlier run or a string that is no JSON
StoresCorrupt(ns) ==
  {s \in [AllKeys -> {Null, Garbage} \cup {Stringify(PersistedBefore(ns, v)) : v \in {"v1"}}] :
     \A key \in AllKeys :
        getNamespaceFromKey(key) # ns \/ key \notin PersistedKeys => s[key] = Null}

\* SpecSweep: one caller on 'user' (ttl one tick, persisting, priority high),
\* a durable store that may hold an unparsable record, and the sweeper's
\* interval firing whenever it is alive; a firing counts among the calls
MaxCallsSweep == 3

InitSweep == InitWith(StoresCorrupt("user"), MaxCallsSweep, 1)

Sweeping ==
  \/ SweepStart
  \/ SweepKeys
  \/ \E key \in AllKeys : SweepRead(key)
  \/ SweepItem
  \/ SweepRemove
  \/ SweepDone

SweepFailing ==
  \/ SweepKeysFails
  \/ \E key \in AllKeys : SweepReadFails(key)
  \/ SweepRemoveFails

NextSweep ==
  \/ CallGet("p1", "user", "a")
  \/ CallSet("p1", "user", "a", "v1")
  \/ Running({"p1", "ctor"})
  \/ Sweeping
  \/ SweepFailing

SpecSweep == InitSweep /\ [][NextSweep]_vars

\* the stores in which one key of 'user', of 'appointments' (both of priority
\* high) and of 'services' (medium) may hold a record of an earlier run
StoresMixed ==
  {s \in [AllKeys -> {Null} \cup {Stringify(PersistedBefore(ns, v)) :
                                    ns \in {"user", "appointments", "services"},
                                    v \in Values}] :
     \A key \in AllKeys :
        IF getNamespaceFromKey(key) \in {"user", "appointments"}
        THEN s[key] # Null => Parse(s[key]).priority = "high"
        ELSE IF getNamespaceFromKey(key) = "services"
        THEN s[key] # Null => Parse(s[key]).priority = "medium" /\ Parse(s[key]).data = "v1"
        ELSE s[key] = Null}

\* SpecHydrate: the constructor's initialize() and the one a get issued before
\* it is over starts; the get is of a namespace that is not persisted and an
\* absent key, so that the hydration passes alone fill the hot tier
MaxCallsHydrate == 2

InitHydrate == InitWith(StoresMixed, MaxCallsHydrate, 1)

NextHydrate ==
  \/ CallGet("p1", "misc", "a")
  \/ \E p \in {"p1", "ctor"} :
        \/ InitKeys(p)
        \/ \E key \in AllKeys : InitRead(p, key)
        \/ InitItem(p)
        \/ InitDone(p)
        \/ InitKeysFails(p)
        \/ \E key \in AllKeys : InitReadFails(p, key)

SpecHydrate == InitHydrate /\ [][NextHydrate]_vars

\* SpecEvict: evictItems on its own.  The hot tier is any map in which the two
\* keys of 'shops' and the key of 'misc' hold an item of any priority, time of
\* last access and access count, or nothing
MaxAccess == 2

EvictItemsOf ==
  [data : {"v1"}, timestamp : {0}, ttl : {TtlShops},
   priority : {"low", "medium", "high"}, accessCount : 1..MaxAccess,
   lastAccessed : 0..1, size : {SmallSize}]

EvictKeys == {generateKey("shops", "a"), generateKey("shops", "b"),
              generateKey("misc", "a")}

InitEvict ==
  /\ memoryCache \in {mc \in [AllKeys -> EvictItemsOf \cup {Null}] :
                        \A key \in AllKeys \ EvictKeys : mc[key] = Null}
  /\ currentMemorySize = ResidentBytes
  /\ maxMemorySize = MemoryBudget
  /\ maxSize = InitialMaxSize
  /\ cacheStats = [hits |-> 0, misses |-> 0, evictions |-> 0,
                   totalRequests |-> 0, errors |-> 0]
  /\ isInitialized = TRUE
  /\ cleanupInterval = TRUE
  /\ timers = 1
  /\ listeners = 1
  /\ storage = [key \in AllKeys |-> Null]
  /\ platform = "web"
  /\ now = 1
  /\ pc = [p \in Procs |-> "idle"]
  /\ call = [p \in Procs |-> IdleCall]
  /\ hist = <<>>
  /\ depth = 1
  /\ lastSet = [key \in AllKeys |-> Null]
  /\ callsLeft = 0
  /\ faultsLeft = 0
  /\ destroyed = FALSE
  /\ saved = Null
  /\ removed = {}

NextEvict == \E ns \in {"shops", "misc"} : \E target \in 0..2 : Evict(ns, target)

SpecEvict == InitEvict /\ [][NextEvict]_vars

\* SpecLife: one caller using get, set and remove on 'user' and 'shops', the
\* sweeper, the host's lifecycle transitions and destroy(), after which the
\* caller may go on
MaxCallsLife == 2

InitLife == InitWith(StoresOf("user"), MaxCallsLife, 1)

NextLife ==
  \/ \E ns \in {"user", "shops"} : CallGet("p1", ns, "a")
  \/ \E ns \in {"user", "shops"} : \E v \in Values : CallSet("p1", ns, "a", v)
  \/ \E ns \in {"user", "shops"} : CallRemove("p1", ns, "a")
  \/ RemoveWrite("p1")
  \/ Running({"p1", "ctor"})
  \/ Sweeping
  \/ \E nextAppState \in {"active", "background"} : AppStateChange(nextAppState)
  \/ Destroy

SpecLife == InitLife /\ [][NextLife]_vars

\* SpecRemove: one caller reading and one caller removing the same key of
\* 'services' (persisting), their calls overlapping; nobody sets
MaxCallsRemove == 3

InitRemove == InitWith(StoresOf("services"), MaxCallsRemove, 1)

NextRemove ==
  \/ CallGet("p1", "services", "a")
  \/ CallRemove("p2", "services", "a")
  \/ RemoveWrite("p2")
  \/ \E p \in {"p1", "ctor"} :
        \/ InitKeys(p)
        \/ \E key \in AllKeys : InitRead(p, key)
        \/ InitItem(p)
        \/ InitDone(p)
  \/ GetRead("p1")
  \/ GetCont("p1")
  \/ GetRemove("p1")

SpecRemove == InitRemove /\ [][NextRemove]_vars

\* durable keys of other parts of the application, and what they hold
ForeignKeys == {<<"auth", "user", "token">>, <<"settings">>}
ForeignValue == [foreign |-> TRUE]

\* the stores in which the key of 'user' and the key of 'services' may hold a
\* record of an earlier run, beside the keys of the other parts
StoresForeign ==
  {s \in [AllKeys \cup ForeignKeys ->
            {Null, ForeignValue, Stringify(PersistedBefore("user", "v1")),
             Stringify(PersistedBefore("services", "v1"))}] :
     \A key \in DOMAIN s :
        IF key \in ForeignKeys THEN s[key] = ForeignValue
        ELSE IF getNamespaceFromKey(key) \in {"user", "services"}
        THEN s[key] \in {Null, Stringify(PersistedBefore(getNamespaceFromKey(key), "v1"))}
        ELSE s[key] = Null}

\* SpecClear: one caller setting keys of three namespaces and clearing
\* namespaces, in a durable store other parts of the application use too
MaxCallsClear == 2

InitClear == InitWith(StoresForeign, MaxCallsClear, 1)

NextClear ==
  \/ \E ns \in {"user", "services", "shops"} : CallSet("p1", ns, "a", "v1")
  \/ \E ns \in {"user", "services", "shops", "misc"} : CallClearNamespace("p1", ns)
  \/ ClearKeys("p1")
  \/ ClearRemove("p1")
  \/ ClearFails("p1")
  \/ SetWrite("p1")
  \/ \E p \in {"p1", "ctor"} :
        \/ InitKeys(p)
        \/ \E key \in AllKeys : InitRead(p, key)
        \/ InitItem(p)
        \/ InitDone(p)

SpecClear == InitClear /\ [][NextClear]_vars

\* ----------------------------------------------------------------- claims
\* C2 (as claimed): in every state the running byte counter equals the sum of
\* the size estimates of the items resident in the hot tier.
C2_SizeAccounting == currentMemorySize = ResidentBytes

\* C3: whenever get evaluated an item (found in the hot tier, or read from
\* the durable tier) for which now - insertedAt > ttl at that moment, it
\* returned null; and a value it returns is the data of the item it evaluated.
C3_NeverReturnsExpired ==
  \A i \in 1..Len(hist) :
     hist[i].op = "get" =>
       /\ hist[i].item # Null /\ hist[i].at - hist[i].item.timestamp > hist[i].item.ttl
            => hist[i].ret = RetNull
       /\ hist[i].ret # RetNull
            => hist[i].item # Null /\ hist[i].ret = hist[i].item.data

\* C3's case: a get has evaluated an expired item it read from the durable tier
C3_Witness ==
  /\ JustReturned("get")
  /\ Last.item # Null
  /\ Last.at - Last.item.timestamp > Last.item.ttl
  /\ ~Last.fault
  /\ "misses" \in Last.counted

\* C4 (as claimed): when a set call has just returned, no namespace holds more
\* hot-tier items than the maxItemCount configured for it at that moment.
C4_NamespaceCap ==
  JustReturned("set") => \A ns \in Namespaces : ResidentCount(ns) <= ConfiguredCap(ns)

\* C5 (as claimed): when a set call has just returned, the bytes of the items
\* resident in the hot tier are at most the byte budget in force.
C5_ByteBudget == JustReturned("set") => ResidentBytes <= maxMemorySize

C9_GetCountsOnce ==
  \A i \in 1..Len(hist) : hist[i].op = "get" => Cardinality(hist[i].counted) = 1

\* C1 (as claimed): a set(ns,k,v) that returned, followed at once by get(ns,k)
\* of the same caller with nothing in between, no durable failure and the ttl
\* not elapsed, makes that get return v.
C1_RoundTrip ==
  /\ Len(hist) = 2
  /\ hist[1].op = "set" /\ hist[2].op = "get"
  /\ hist[1].ns = hist[2].ns /\ hist[1].k = hist[2].k
  /\ ~hist[1].fault /\ ~hist[2].fault
  /\ hist[2].at - hist[1].item.timestamp <= hist[1].item.ttl
  => hist[2].ret = hist[1].v

\* C6 (as claimed), for a namespace whose cap is 1: after set on two distinct
\* keys of the namespace, which was empty before the first, exactly one of the
\* two is resident and the other is the minimum of the eviction comparator.
C6_AdmissionCap ==
  /\ Len(hist) = 2
  /\ JustReturned("set") /\ hist[1].op = "set"
  /\ hist[1].ns = hist[2].ns /\ hist[1].k # hist[2].k
  /\ hist[1].cnt0 = 0
  /\ ConfiguredCap(hist[1].ns) = 1
  /\ ~hist[1].fault /\ ~hist[2].fault
  => /\ ResidentCount(hist[1].ns) = 1
     /\ \E out \in {1, 2} :
           /\ memoryCache[generateKey(hist[out].ns, hist[out].k)] = Null
           /\ compareItems(hist[out].item, hist[3 - out].item) <= 0

\* C7: a remove during which no durable operation fails returns true and counts
\* no error, and a get of the key that follows two such removes of it, with
\* nothing else running in between, returns null.
C7_IdempotentRemoval ==
  \A i \in 1..Len(hist) :
     /\ hist[i].op = "remove" /\ ~hist[i].fault
          => hist[i].ret = "true" /\ hist[i].counted = {}
     /\ hist[i].op = "get" /\ hist[i].rm >= 2 /\ ~hist[i].fault
          => hist[i].ret = RetNull

\* C7's case: the key of a persisting namespace was resident, remove ran twice
\* and get has returned
C7_Witness ==
  /\ JustReturned("get")
  /\ Last.rm >= 2
  /\ Last.had
  /\ Last.ns \in PersistingNamespaces
  /\ ~Last.fault

\* C10 (as claimed): once every call has completed, a resident hot-tier entry
\* holds the value of the set that ran last on its key (here for a last set
\* that was admitted to the hot tier while no initialize() was in flight).
C10_LastWriteWins ==
  (\A p \in Procs : pc[p] = "idle") =>
     \A key \in AllKeys :
        /\ lastSet[key] # Null /\ memoryCache[key] # Null
        /\ lastSet[key].admitted /\ lastSet[key].settled
        => memoryCache[key].data = lastSet[key].data

\* C11 (as claimed): once destroy() has returned and every call in flight has
\* completed, no sweeper timer and no lifecycle subscription is alive and the
\* hot tier is empty.
C11_DestroyTearsDown ==
  destroyed /\ (\A p \in Procs : pc[p] = "idle")
    => /\ timers = 0
       /\ listeners = 0
       /\ \A key \in AllKeys : memoryCache[key] = Null

\* C12: a set during which no durable operation fails and whose value is
\* serializable returns true and counts no error, also when the hot tier
\* refused the item.
C12_SetFalseOnlyOnFailure ==
  \A i \in 1..Len(hist) :
     hist[i].op = "set" /\ ~hist[i].fault /\ Serializable(hist[i].v)
       => hist[i].ret = "true" /\ "errors" \notin hist[i].counted

\* C12's case: a set on a namespace at its cap has returned, its item refused by
\* the hot tier, for a persisting and for a non-persisting namespace
C12_Witness ==
  /\ JustReturned("set")
  /\ ~Last.fault
  /\ Last.cnt0 >= ConfiguredCap(Last.ns)
  /\ memoryCache[generateKey(Last.ns, Last.k)] # Last.item
  /\ Last.ns \in PersistingNamespaces

\* C12's case on a namespace that does not persist
C12_WitnessHotOnly ==
  /\ JustReturned("set")
  /\ Last.cnt0 >= ConfiguredCap(Last.ns)
  /\ memoryCache[generateKey(Last.ns, Last.k)] # Last.item
  /\ Last.ns \notin PersistingNamespaces

\* C13 (as claimed): a set whose value cannot be serialized returns false,
\* counts exactly one error, and its item is not in the hot tier afterwards.
C13_SerializationFailure ==
  JustReturned("set") /\ Last.outer = "none" /\ ~Serializable(Last.v) /\ ~Last.fault
    => /\ Last.ret = "false"
       /\ Last.counted = {"errors"}
       /\ memoryCache[generateKey(Last.ns, Last.k)] # Last.item

\* C14 (as claimed): no call of a public method ends with an exception that
\* reaches its caller.
C14_FailOpen == \A i \in 1..Len(hist) : hist[i].ret # "throws"

\* C15: a getOrSet without forceRefresh whose get yielded a value returns that
\* value, the data of the item get evaluated, and never invokes the fallback;
\* any other getOrSet invokes the fallback once and, when the fallback
\* resolves, returns what it resolved with, whatever set answered.
C15_GetOrSetResult ==
  \A i \in 1..Len(hist) :
     LET e == hist[i]
     IN  e.outer = "getOrSet" =>
           /\ ~e.force /\ e.cached # RetNull
                => e.ret = e.cached /\ e.calls = 0
                   /\ e.seen # Null /\ e.cached = e.seen.data
           /\ e.force \/ e.cached = RetNull
                => e.calls = 1 /\ (e.ret # "throws" => e.ret = e.data)

\* C15's case: the fallback resolved, the set of its result failed and left
\* nothing of it in the hot tier, and getOrSet has returned
C15_Witness ==
  /\ JustFinished("getOrSet")
  /\ Last.op = "set"
  /\ "errors" \in Last.counted
  /\ Last.calls = 1
  /\ memoryCache[generateKey(Last.ns, Last.k)] # Last.item

\* C16 (as claimed): a preload whose get met no failure invokes the loader if
\* and only if that get answered null; when the key was held unexpired by the
\* hot tier, or by the durable tier of a persisting namespace, the loader is
\* not invoked, preload returns true and the hot tier still holds that value.
C16_PreloadOnlyWhenAbsent ==
  JustFinished("preload") /\ ~Last.faulted
    => /\ Last.calls = (IF Last.cached = RetNull THEN 1 ELSE 0)
       /\ PresentAtGet(Last)
            => /\ Last.calls = 0
               /\ Last.ret = "true"
               /\ LET item == memoryCache[generateKey(Last.ns, Last.k)]
                  IN  item # Null => item.data = Last.cached

\* C17 (as claimed): after a set on 'user' (persist, priority high) returned
\* true and the process restarted, a get of the key that meets no durable
\* failure, with no set of the key since the restart, returns the value set
\* while the ttl has not elapsed since that set, and null once it has.
C17_RestartRoundTrip ==
  /\ JustReturned("get") /\ ~Last.fault
  /\ saved # Null /\ Last.ns = saved.ns /\ Last.k = saved.k
  /\ lastSet[generateKey(Last.ns, Last.k)] = Null
  => Last.ret = (IF Last.at - saved.item.timestamp <= saved.item.ttl
                 THEN saved.v ELSE RetNull)

\* C17 (amended): the same, with the value as JSON gives it back in place of
\* the value set; the two are equal for a value JSON represents faithfully.
C17_RestartRoundTripViaJSON ==
  /\ JustReturned("get") /\ ~Last.fault
  /\ saved # Null /\ Last.ns = saved.ns /\ Last.k = saved.k
  /\ lastSet[generateKey(Last.ns, Last.k)] = Null
  => Last.ret = (IF Last.at - saved.item.timestamp <= saved.item.ttl
                 THEN ViaJSON(saved.v) ELSE RetNull)

\* C17's case: the restart's hydration brought the record back into the hot
\* tier and get has returned its value
C17_Witness ==
  /\ JustReturned("get") /\ ~Last.fault
  /\ saved # Null
  /\ lastSet[generateKey(Last.ns, Last.k)] = Null
  /\ Last.ret = saved.v
  /\ ViaJSON(saved.v) = saved.v
  /\ "hits" \in Last.counted
  /\ memoryCache[generateKey(Last.ns, Last.k)] # Null
  /\ memoryCache[generateKey(Last.ns, Last.k)].timestamp = saved.item.timestamp

\* C17's other case: the get came after the ttl and returned null
C17_WitnessExpired ==
  /\ JustReturned("get") /\ ~Last.fault
  /\ saved # Null
  /\ lastSet[generateKey(Last.ns, Last.k)] = Null
  /\ Last.at - saved.item.timestamp > saved.item.ttl
  /\ Last.ret = RetNull

\* the keys resident in a hot tier
Resident(mc) == {key \in DOMAIN mc : mc[key] # Null}

\* C18: when a transition to background or inactive was delivered while the
\* hot tier held more than the threshold of items, then after the handler the
\* hot tier holds at most the cap of items, each of priority high or medium
\* and each as it was resident before the transition.
C18_FootprintShrink ==
  /\ hist # <<>> /\ Last.op = "appState"
  /\ Last.nextAppState \in {"background", "inactive"}
  /\ Cardinality(Resident(Last.before)) > ShrinkThreshold
  => /\ Cardinality(Resident(memoryCache)) <= ShrinkKeep
     /\ \A key \in Resident(memoryCache) :
           /\ memoryCache[key].priority \in {"high", "medium"}
           /\ memoryCache[key] = Last.before[key]

\* C18's case: more items of priority high or medium than the cap, and one of
\* priority low, were resident; the handler has cut them down to the cap
C18_Witness ==
  /\ hist # <<>> /\ Last.op = "appState"
  /\ Last.nextAppState = "background"
  /\ Cardinality({key \in Resident(Last.before) :
                    Last.before[key].priority # "low"}) > ShrinkKeep
  /\ \E key \in Resident(Last.before) : Last.before[key].priority = "low"
  /\ Cardinality(Resident(memoryCache)) = ShrinkKeep

\* C19 (as claimed): when a run of the sweeper has completed without a durable
\* I/O failure, whatever the state it started from, no item of the hot tier
\* and no record of the durable tier is expired as of the time the sweeper
\* read, and no record of the durable tier is unparsable.
C19_SweepCleansBothTiers ==
  JustReturned("sweep") /\ ~Last.fault =>
    /\ \A key \in AllKeys :
          memoryCache[key] # Null => ~isExpired(memoryCache[key], Last.at)
    /\ \A key \in AllKeys :
          storage[key] # Null =>
            Parses(storage[key]) /\ ~isExpired(Parse(storage[key]), Last.at)

\* C20 (as claimed): once the hydration pass or the sweep has read a record
\* it could not parse and gone on to its next key, and once a get whose
\* fall-through read such a record has returned, the record is no longer in
\* the durable store, and the get answered null.
C20_CorruptRecordsDeleted ==
  /\ \A p \in Procs : pc[p] \in {"init_loop", "sweep_loop"} =>
        \A key \in call[p].bad : storage[key] # Garbage
  /\ JustReturned("get") /\ Last.item = Garbage =>
        Last.ret = RetNull /\ storage[generateKey(Last.ns, Last.k)] # Garbage

\* the step in which the hydration loop of p handles the record it read
HydrationStep(p) == pc[p] = "init_item" /\ pc'[p] = "init_loop"

\* C21: while hydration passes alone fill the hot tier, every resident item has
\* priority high; and whenever a hydration pass loads a record (the byte
\* counter moves), the item it puts under the key it read has priority high,
\* is not expired at that time, and canAddToMemory held for it just before.
C21_HydrationAdmits ==
  /\ [](\A key \in AllKeys :
          memoryCache[key] # Null => memoryCache[key].priority = "high")
  /\ [][\A p \in Procs :
          HydrationStep(p) /\ (currentMemorySize' # currentMemorySize
                                \/ memoryCache' # memoryCache) =>
            LET key == call[p].key
                item == memoryCache'[key]
            IN  /\ item # Null
                /\ item = Parse(call[p].read)
                /\ item.priority = "high"
                /\ ~isExpired(item, now')
                /\ canAddToMemory(memoryCache, currentMemorySize, maxSize,
                                  maxMemorySize, key, item)
                /\ \A other \in AllKeys \ {key} :
                      memoryCache'[other] = memoryCache[other]]_vars

\* initialization is over, the hot tier holds a hydrated item, and both a record
\* of medium priority and a record hydration found expired were left out
C21_Witness ==
  /\ isInitialized /\ ~InitInFlight
  /\ \E key \in AllKeys : memoryCache[key] # Null
  /\ storage[generateKey("services", "a")] # Null
  /\ memoryCache[generateKey("services", "a")] = Null
  /\ \E key \in AllKeys :
        /\ storage[key] # Null /\ Parse(storage[key]).priority = "high"
        /\ memoryCache[key] = Null

\* C22 (as claimed): in every state the byte budget is the initial one or the
\* platform's, and the maxSize of each namespace is the original one or, once
\* tuned, floor(0.6 x original): the scaling is never applied twice.
C22_TunedOnce ==
  /\ maxMemorySize \in {MemoryBudget, platformMemory(platform)}
  /\ \A ns \in Registered :
        maxSize[ns] \in {InitialMaxSize[ns], (InitialMaxSize[ns] * 6) \div 10}

\* C23 (as claimed): when every call of the overlapping gets and sets on one
\* key of 'services' has completed and no item can have expired yet (the clock
\* has not passed the ttl), the byte counter equals the sum of the size
\* estimates of the items resident in the hot tier.
C23_CounterUnderOverlap ==
  (\A p \in Procs : pc[p] = "idle") /\ now <= TtlServices /\ cacheStats.evictions = 0
    => currentMemorySize = ResidentBytes

\* C24: after evictItems(ns, target) on a hot tier where ns held n items: when
\* n <= target nothing has changed; otherwise exactly n - target items of ns
\* have left, none of them comes after an item of ns that stayed in the order
\* priority, lastAccessed, accessCount, ns holds target items, and every other
\* entry of the map is as it was.
C24_EvictionVictims ==
  hist # <<>> /\ Last.op = "evict" =>
    LET before == Last.before
        nsKeys == NamespaceKeys(before, Last.ns)
        n == Cardinality(nsKeys)
        gone == {key \in AllKeys : before[key] # Null /\ memoryCache[key] = Null}
    IN  /\ \A key \in AllKeys \ gone : memoryCache[key] = before[key]
        /\ IF n <= Last.target THEN gone = {}
           ELSE /\ gone \subseteq nsKeys
                /\ Cardinality(gone) = n - Last.target
                /\ ResidentCount(Last.ns) = Last.target
                /\ \A x \in gone, y \in nsKeys \ gone :
                      compareItems(before[x], before[y]) <= 0

\* an eviction chose between two items of one namespace that differ in the order
C24_Witness ==
  /\ hist # <<>> /\ Last.op = "evict"
  /\ Cardinality(NamespaceKeys(Last.before, Last.ns)) = 2
  /\ Last.target = 1
  /\ ResidentCount(Last.ns) = 1
  /\ \E x, y \in NamespaceKeys(Last.before, Last.ns) :
        compareItems(Last.before[x], Last.before[y]) < 0
  /\ \E key \in AllKeys : getNamespaceFromKey(key) # Last.ns /\ memoryCache[key] # Null

\* C25: in every state the byte counter is at least the sum of the size
\* estimates of the items resident in the hot tier.
C25_NeverUnderEstimates == currentMemorySize >= ResidentBytes

\* an item is resident after a removal, a sweep, a shrink or a destroy() had
\* the counter recomputed or moved: the counter stands above the resident bytes
C25_Witness ==
  /\ \E key \in AllKeys : memoryCache[key] # Null
  /\ currentMemorySize > ResidentBytes
  /\ destroyed

\* C26: the evictions counter is 0 in every state, and when a set has returned
\* its namespace holds at least as many items as it held when the set began.
C26_SetNeverEvicts ==
  /\ cacheStats.evictions = 0
  /\ JustReturned("set") => ResidentCount(Last.ns) >= Last.cnt0

\* a set has returned true on a namespace that held as many items as its cap
\* allows, or more, when the set began
C26_Witness ==
  /\ JustReturned("set") /\ Last.ret = "true"
  /\ Last.cnt0 > 0
  /\ Last.cnt0 >= ConfiguredCap(Last.ns)
  /\ memoryCache[generateKey(Last.ns, Last.k)] # Last.item

\* C27 (as claimed): at most one sweeper interval and at most one AppState
\* subscription are alive in every state, and a hydration pass that handles the
\* record of a key already in the hot tier leaves the hot tier and the byte
\* counter as they are.
C27_SingleInitialization ==
  /\ [](timers <= 1 /\ listeners <= 1)
  /\ [][\A p \in Procs :
          HydrationStep(p) /\ memoryCache[call[p].key] # Null =>
            memoryCache' = memoryCache /\ currentMemorySize' = currentMemorySize]_vars

\* the record the removeItem p is about to issue was decided on: the expired
\* record its get or its sweep read
ReadBeforeRemove(p) ==
  IF pc[p] = "get_remove" THEN Stringify(call[p].item) ELSE call[p].read

RemovedKey(p) == IF pc[p] = "get_remove" THEN CacheKey(call[p]) ELSE call[p].key

\* C28 (as claimed): when a get or the sweep that read an expired record of a
\* key removes the key from the durable store, the record it removes is the
\* one it read: no record written since is deleted.
C28_CleanupSparesFresh ==
  [][\A p \in Procs :
       /\ \/ pc[p] = "get_remove"
          \/ pc[p] = "sweep_remove" /\ call[p].why = "expired"
       /\ pc'[p] # pc[p]
       /\ storage'[RemovedKey(p)] = Null
       => storage[RemovedKey(p)] \in {Null, ReadBeforeRemove(p)}]_vars

\* C29 (as claimed): when remove has been called on a key, no set has followed,
\* and the remove and every get have completed, the key is in neither tier.
C29_NoResurrection ==
  \A key \in removed :
    (\A p \in Procs : pc[p] = "idle") =>
      memoryCache[key] = Null /\ storage[key] = Null

\* this step is one of clearNamespace(ns) called by p: its synchronous part
\* (up to the await, or to the return for a namespace that is not persisted)
\* or one of its resumptions
ClearStepOf(p, ns) ==
  \/ pc[p] \in {"clear_keys", "clear_remove"} /\ pc'[p] # pc[p] /\ call[p].ns = ns
  \/ pc[p] = "idle" /\ pc'[p] = "clear_keys" /\ call'[p].ns = ns
  \/ /\ pc[p] = "idle" /\ pc'[p] = "idle"
     /\ hist' # hist /\ hist' # <<>>
     /\ hist'[Len(hist')].op = "clearNamespace"
     /\ hist'[Len(hist')].proc = p
     /\ hist'[Len(hist')].ns = ns

\* C30 (as claimed): a step of clearNamespace(ns) changes no hot-tier entry of
\* another namespace and no durable key other than those of the form
\* cache:ns:localKey.
C30_ClearNamespaceFrame ==
  [][\A p \in Clients : \A ns \in Namespaces :
       ClearStepOf(p, ns) =>
         /\ \A key \in AllKeys :
               getNamespaceFromKey(key) # ns => memoryCache'[key] = memoryCache[key]
         /\ \A key \in DOMAIN storage :
               ~(Len(key) = 3 /\ key[1] = "cache" /\ key[2] = ns)
                  => storage'[key] = storage[key]]_vars

====
